---- MODULE Spec2Model ----
(***************************************************************************)
(* Model of vlc_db.py: the SQLite store of playback progress and series    *)
(* settings (class VlcDatabase) and the CLI commands that call it.         *)
(*                                                                         *)
(* The commands are modelled twice: as one step each (cli_...), and, for    *)
(* the claims about processes that run side by side, as the steps of a     *)
(* process: __enter__, the statements of the method, commit, __exit__.     *)
(*                                                                         *)
(* A table is a set of column names (empty when the table does not exist)  *)
(* and a sequence of rows in rowid order; a row is a function from the     *)
(* table's columns to values.  A nullable value is <<>> (SQL NULL, Python  *)
(* None) or <<v>>.  A text value that is taken apart by the code (a file   *)
(* name or a directory) is a sequence of one-character strings.            *)
(***************************************************************************)
EXTENDS Integers, Sequences, FiniteSets, TLC

VARIABLES pcols, playback, scols, series, last, procs

vars == <<pcols, playback, scols, series, last, procs>>

store == <<pcols, playback, scols, series>>

NULL == <<>>

Val(v) == <<v>>

-----------------------------------------------------------------------------
(* Bounds of the model *)

\* _calculate_status is explored on -MaxOver .. 100 + MaxOver
MaxOver == 10

\* longest list of file names given to a batch query
MaxBatch == 2

\* the largest integer a column holds; it stands for 2^63 - 1, which the
\* model checker's integers do not reach
MaxSqlInt == 1000

-----------------------------------------------------------------------------
(* Schemas *)

\* CREATE TABLE playback of the first release (RELIS)
LegacyPlaybackCols ==
    {"filename", "position", "duration", "percent",
     "series_prefix", "series_suffix", "description"}

\* CREATE TABLE playback of the current release
PlaybackCols ==
    {"filename", "position", "duration", "percent", "status",
     "series_prefix", "series_suffix", "description", "outro_triggered"}

\* CREATE TABLE series_settings of the first release (RELIS)
LegacySeriesCols ==
    {"series_prefix", "series_suffix", "autoplay", "skip_intro", "skip_outro",
     "intro_start", "intro_end", "outro_start", "description"}

\* CREATE TABLE series_settings of the current release
SeriesCols ==
    {"series_prefix", "series_suffix", "autoplay", "skip_intro", "skip_outro",
     "intro_start", "intro_end", "credits_duration", "description"}

\* the DEFAULT clause of a column
ColDefault(c) ==
    IF c \in {"autoplay", "skip_intro", "skip_outro", "outro_triggered"}
    THEN Val(0) ELSE NULL

PlaybackKey == {"filename"}

SeriesKey == {"series_prefix", "series_suffix"}

-----------------------------------------------------------------------------
(* SQL statements: each returns [ok, rows]; a statement that raises        *)
(* sqlite3.Error has ok = FALSE and leaves the rows as they were.          *)

SqlError(rows) == [ok |-> FALSE, rows |-> rows]

SqlOk(rows) == [ok |-> TRUE, rows |-> rows]

\* a method that prints its complaint and returns False before any statement
Rejected(rows) == [ok |-> FALSE, rows |-> rows]

\* the row has the key values of `given`
KeyEq(row, given, key) == \A c \in key : row[c] = given[c]

\* the row an INSERT builds: the given columns, the others at their default
NewRow(cols, given) ==
    [c \in cols |-> IF c \in DOMAIN given THEN given[c] ELSE ColDefault(c)]

\* the row an UPDATE ... SET leaves
SetCols(row, set) ==
    [c \in DOMAIN row |-> IF c \in DOMAIN set THEN set[c] ELSE row[c]]

\* mutant: INSERT OR REPLACE: a row with the same key is deleted and the new
\* row has the defaults in the columns that are not given
ExecInsertOrReplace(cols, rows, key, given) ==
    IF cols = {} \/ ~(DOMAIN given \subseteq cols) THEN SqlError(rows)
    ELSE SqlOk(Append(SelectSeq(rows, LAMBDA r : ~KeyEq(r, given, key)),
                      NewRow(cols, given)))

\* INSERT INTO t (given) VALUES (...): no such table, no such column, or a
\* primary-key conflict raise
ExecInsert(cols, rows, key, given) ==
    IF cols = {} \/ ~(DOMAIN given \subseteq cols) THEN SqlError(rows)
    ELSE IF \E i \in DOMAIN rows : KeyEq(rows[i], given, key) THEN SqlError(rows)
    ELSE SqlOk(Append(rows, NewRow(cols, given)))

\* UPDATE t SET set WHERE key = where
ExecUpdate(cols, rows, key, where, set) ==
    IF cols = {} \/ ~(DOMAIN set \subseteq cols) \/ ~(key \subseteq cols)
    THEN SqlError(rows)
    ELSE SqlOk([i \in DOMAIN rows |->
                  IF KeyEq(rows[i], where, key) THEN SetCols(rows[i], set)
                  ELSE rows[i]])

\* mutant: a plain INSERT into a table without the primary key
ExecUpsertNoKey(cols, rows, key, given, set) ==
    IF cols = {} \/ ~(DOMAIN given \subseteq cols) \/ ~(DOMAIN set \subseteq cols)
    THEN SqlError(rows)
    ELSE SqlOk(Append(rows, NewRow(cols, given)))

\* INSERT ... ON CONFLICT(key) DO UPDATE SET set
ExecUpsert(cols, rows, key, given, set) ==
    IF cols = {} \/ ~(DOMAIN given \subseteq cols) \/ ~(DOMAIN set \subseteq cols)
    THEN SqlError(rows)
    ELSE IF \E i \in DOMAIN rows : KeyEq(rows[i], given, key)
         THEN ExecUpdate(cols, rows, key, given, set)
         ELSE ExecInsert(cols, rows, key, given)

\* ALTER TABLE t ADD COLUMN c DEFAULT d
AddColumn(rows, c, d) ==
    [i \in DOMAIN rows |->
        [k \in (DOMAIN rows[i]) \cup {c} |-> IF k = c THEN d ELSE rows[i][k]]]

\* the rows a SELECT ... WHERE key = where fetches
Select(rows, key, where) ==
    SelectSeq(rows, LAMBDA r : KeyEq(r, where, key))

-----------------------------------------------------------------------------
(* VlcDatabase *)

\* mutant: the migration copies outro_start into the new credits_duration
init_db_copying(pc, pb, sc, se) ==
    LET pc1 == IF pc = {} THEN PlaybackCols ELSE pc
        pmig == "outro_triggered" \notin pc1
        sc1 == IF sc = {} THEN SeriesCols ELSE sc
        smig == "credits_duration" \notin sc1
    IN [ok |-> TRUE,
        pcols |-> pc1 \cup {"outro_triggered"},
        playback |-> IF pmig THEN AddColumn(pb, "outro_triggered", Val(0)) ELSE pb,
        scols |-> sc1 \cup {"credits_duration"},
        series |-> IF smig
                   THEN [i \in DOMAIN se |->
                           [k \in (DOMAIN se[i]) \cup {"credits_duration"} |->
                              IF k = "credits_duration"
                              THEN (IF "outro_start" \in DOMAIN se[i]
                                    THEN se[i]["outro_start"] ELSE NULL)
                              ELSE se[i][k]]]
                   ELSE se]

\* mutant: both ALTER TABLE migrations run without the probe of the column
init_db_always_migrates(pc, pb, sc, se) ==
    LET pc1 == IF pc = {} THEN PlaybackCols ELSE pc
        sc1 == IF sc = {} THEN SeriesCols ELSE sc
    IN [ok |-> TRUE,
        pcols |-> pc1 \cup {"outro_triggered"},
        playback |-> AddColumn(pb, "outro_triggered", Val(0)),
        scols |-> sc1 \cup {"credits_duration"},
        series |-> AddColumn(se, "credits_duration", NULL)]

\* init_db: the new state of both tables; the statements it runs cannot raise
init_db(pc, pb, sc, se) ==
    LET pc1 == IF pc = {} THEN PlaybackCols ELSE pc
        pmig == "outro_triggered" \notin pc1
        pc2 == IF pmig THEN pc1 \cup {"outro_triggered"} ELSE pc1
        pb2 == IF pmig THEN AddColumn(pb, "outro_triggered", Val(0)) ELSE pb
        sc1 == IF sc = {} THEN SeriesCols ELSE sc
        smig == "credits_duration" \notin sc1
        sc2 == IF smig THEN sc1 \cup {"credits_duration"} ELSE sc1
        se2 == IF smig THEN AddColumn(se, "credits_duration", NULL) ELSE se
    IN [ok |-> TRUE, pcols |-> pc2, playback |-> pb2, scols |-> sc2, series |-> se2]

WatchedFrom == 90

PartialFrom == 1

\* mutant: the watched threshold compared with > instead of >=
calculate_status_gt(percent) ==
    IF percent > WatchedFrom THEN Val("watched")
    ELSE IF percent >= PartialFrom THEN Val("partial")
    ELSE NULL

_calculate_status(percent) ==
    IF percent >= WatchedFrom THEN Val("watched")
    ELSE IF percent >= PartialFrom THEN Val("partial")
    ELSE NULL

\* mutant: the DO UPDATE SET list without status (the RELIS statement)
save_playback_stale_status(cols, rows, filename, position, duration, percent, series_prefix, series_suffix) ==
    LET status == _calculate_status(percent)
        set == [position |-> Val(position), duration |-> Val(duration),
                percent |-> Val(percent),
                series_prefix |-> series_prefix, series_suffix |-> series_suffix]
        given == [c \in DOMAIN set \cup {"filename", "status"} |->
                    IF c = "filename" THEN filename
                    ELSE IF c = "status" THEN status ELSE set[c]]
    IN ExecUpsert(cols, rows, PlaybackKey, given, set)

\* mutant: DO UPDATE SET series_prefix = COALESCE(excluded.series_prefix,
\* series_prefix), and the same for series_suffix
save_playback_keeping_series(cols, rows, filename, position, duration, percent, series_prefix, series_suffix) ==
    LET status == _calculate_status(percent)
        given == [filename |-> filename, position |-> Val(position),
                  duration |-> Val(duration), percent |-> Val(percent), status |-> status,
                  series_prefix |-> series_prefix, series_suffix |-> series_suffix]
        set == [c \in {c \in DOMAIN given \ {"filename"} :
                         c \in {"series_prefix", "series_suffix"} => given[c] # NULL} |->
                  given[c]]
    IN IF ~(DOMAIN given \subseteq cols) THEN SqlError(rows)
       ELSE ExecUpsert(cols, rows, PlaybackKey, given, set)

\* mutant: the DO UPDATE SET list without series_prefix and series_suffix
save_playback_progress_only(cols, rows, filename, position, duration, percent, series_prefix, series_suffix) ==
    LET set == [position |-> Val(position), duration |-> Val(duration),
                percent |-> Val(percent), status |-> _calculate_status(percent)]
        given == [c \in DOMAIN set \cup {"filename", "series_prefix", "series_suffix"} |->
                    IF c = "filename" THEN filename
                    ELSE IF c = "series_prefix" THEN series_prefix
                    ELSE IF c = "series_suffix" THEN series_suffix ELSE set[c]]
    IN ExecUpsert(cols, rows, PlaybackKey, given, set)

\* mutant: DO UPDATE SET also writes outro_triggered = 0
save_playback_resetting_flag(cols, rows, filename, position, duration, percent, series_prefix, series_suffix) ==
    LET set == [position |-> Val(position), duration |-> Val(duration),
                percent |-> Val(percent), status |-> _calculate_status(percent),
                series_prefix |-> series_prefix, series_suffix |-> series_suffix,
                outro_triggered |-> Val(0)]
        given == [c \in (DOMAIN set \ {"outro_triggered"}) \cup {"filename"} |->
                    IF c = "filename" THEN filename ELSE set[c]]
    IN ExecUpsert(cols, rows, PlaybackKey, given, set)

\* mutant: INSERT OR REPLACE in place of the upsert of the progress
save_playback_replacing(cols, rows, filename, position, duration, percent, series_prefix, series_suffix) ==
    LET given == [filename |-> filename, position |-> Val(position),
                  duration |-> Val(duration), percent |-> Val(percent),
                  status |-> _calculate_status(percent),
                  series_prefix |-> series_prefix, series_suffix |-> series_suffix]
    IN IF cols = {} \/ ~(DOMAIN given \subseteq cols) THEN SqlError(rows)
       ELSE SqlOk(Append(SelectSeq(rows, LAMBDA r : ~KeyEq(r, given, PlaybackKey)),
                         NewRow(cols, given)))

save_playback(cols, rows, filename, position, duration, percent, series_prefix, series_suffix) ==
    LET status == _calculate_status(percent)
        set == [position |-> Val(position), duration |-> Val(duration),
                percent |-> Val(percent), status |-> status,
                series_prefix |-> series_prefix, series_suffix |-> series_suffix]
        given == [c \in DOMAIN set \cup {"filename"} |->
                    IF c = "filename" THEN filename ELSE set[c]]
    IN ExecUpsert(cols, rows, PlaybackKey, given, set)

\* mutant: INSERT OR REPLACE in place of the upsert of the flag: the row of the
\* file is deleted and the new row has the defaults in every other column
set_outro_triggered_replacing(cols, rows, filename, triggered) ==
    LET given == [filename |-> filename, outro_triggered |-> Val(triggered)]
    IN IF cols = {} \/ ~(DOMAIN given \subseteq cols) THEN SqlError(rows)
       ELSE SqlOk(Append(SelectSeq(rows, LAMBDA r : ~KeyEq(r, given, PlaybackKey)),
                         NewRow(cols, given)))

set_outro_triggered(cols, rows, filename, triggered) ==
    ExecUpsert(cols, rows, PlaybackKey,
               [filename |-> filename, outro_triggered |-> Val(triggered)],
               [outro_triggered |-> Val(triggered)])

\* Python's  a if a else None  on a command-line word
OptText(word) == IF word = "" THEN NULL ELSE Val(word)

Range(seq) == {seq[i] : i \in DOMAIN seq}

\* full_path.split('/')[-1]
basename(path) ==
    LET slashes == {i \in DOMAIN path : path[i] = "/"}
    IN IF slashes = {} THEN path
       ELSE LET m == CHOOSE i \in slashes : \A j \in slashes : j <= i
            IN SubSeq(path, m + 1, Len(path))

\* f"{directory}/{filename}" for every requested name
full_paths(directory, filenames) ==
    [i \in DOMAIN filenames |-> directory \o <<"/">> \o filenames[i]]

\* the rowids SELECT ... WHERE filename IN (paths) fetches
Matching(rows, paths) ==
    {i \in DOMAIN rows : rows[i]["filename"] \in Range(paths)}

\* the orders in which fetchall() may deliver them (SQL fixes none)
FetchOrders(rows, paths) ==
    LET m == Matching(rows, paths)
    IN {o \in [1..Cardinality(m) -> m] : \A i, j \in DOMAIN o : i # j => o[i] # o[j]}

\* result[key] = value  on a dict
DictSet(dict, key, value) ==
    [k \in (DOMAIN dict) \cup {key} |-> IF k = key THEN value ELSE dict[k]]

\* for full_path, percent in fetchall(): result[basename] = percent
RECURSIVE ByBasename(_, _)
ByBasename(fetched, result) ==
    IF fetched = <<>> THEN result
    ELSE ByBasename(Tail(fetched),
                    DictSet(result, basename(Head(fetched)["filename"]),
                            Head(fetched)["percent"]))

\* mutant: the loop that fills in the names without a row left out
FillMissingNothing(result, filenames, d) == result

\* for filename in filenames: if filename not in result: result[filename] = d
FillMissing(result, filenames, d) ==
    [k \in (DOMAIN result) \cup Range(filenames) |->
        IF k \in DOMAIN result THEN result[k] ELSE d]

\* get_playback_batch, with the order in which the rows were fetched
get_playback_batch(cols, rows, directory, filenames, order) ==
    IF filenames = <<>> THEN <<>>
    ELSE IF ~({"filename", "percent"} \subseteq cols)
         THEN [k \in Range(filenames) |-> Val(0)]
         ELSE FillMissing(ByBasename([i \in DOMAIN order |-> rows[order[i]]], <<>>),
                          filenames, Val(0))

\* str(v) of a fetched number, as print writes it
PyStr(v) == IF v = NULL THEN "None" ELSE ToString(v[1])

\* get_playback_percent: result[0] if result else 0, and 0 on an SQL error
get_playback_percent(cols, rows, filename) ==
    IF ~({"filename", "percent"} \subseteq cols) THEN Val(0)
    ELSE LET result == SelectSeq(rows, LAMBDA r : r["filename"] = filename)
         IN IF result # <<>> THEN result[1]["percent"] ELSE Val(0)

\* get_outro_triggered: result[0] if result else 0, and 0 on an SQL error
get_outro_triggered(cols, rows, filename) ==
    IF ~({"filename", "outro_triggered"} \subseteq cols) THEN Val(0)
    ELSE LET result == SelectSeq(rows, LAMBDA r : r["filename"] = filename)
         IN IF result # <<>> THEN result[1]["outro_triggered"] ELSE Val(0)

\* a fetched text value as the caller sees it: COALESCE(v, '')
TextOrEmpty(v) == IF v = NULL THEN "" ELSE v[1]

\* get_playback: None (here NULL) when there is no row or the query raises;
\* the five fields of the row are held as str() writes them
get_playback(cols, rows, filename) ==
    LET want == {"position", "duration", "percent", "series_prefix", "series_suffix"}
        got == SelectSeq(rows, LAMBDA r : r["filename"] = filename)
    IN IF ~((PlaybackKey \cup want) \subseteq cols) \/ got = <<>> THEN NULL
       ELSE Val(<<PyStr(got[1]["position"]), PyStr(got[1]["duration"]),
                  PyStr(got[1]["percent"]), TextOrEmpty(got[1]["series_prefix"]),
                  TextOrEmpty(got[1]["series_suffix"])>>)

\* for filename, status in fetchall(): result[filename] = status if status else ''
RECURSIVE ByFilename(_, _)
ByFilename(fetched, result) ==
    IF fetched = <<>> THEN result
    ELSE ByFilename(Tail(fetched),
                    DictSet(result, Head(fetched)["filename"],
                            TextOrEmpty(Head(fetched)["status"])))

\* mutant: the names joined to the directory, as get_playback_batch does
get_playback_batch_status_joined(cols, rows, directory, filenames) ==
    IF filenames = <<>> THEN <<>>
    ELSE IF ~({"filename", "status"} \subseteq cols)
         THEN [k \in Range(filenames) |-> ""]
         ELSE LET paths == full_paths(directory, filenames)
                  result == [k \in {f \in Range(filenames) :
                                      \E i \in DOMAIN rows :
                                         rows[i]["filename"] = directory \o <<"/">> \o f} |->
                               TextOrEmpty(rows[CHOOSE i \in DOMAIN rows :
                                  rows[i]["filename"] = directory \o <<"/">> \o k]["status"])]
              IN FillMissing(result, filenames, "")

\* get_playback_batch_status: the directory is not used
get_playback_batch_status(cols, rows, directory, filenames) ==
    IF filenames = <<>> THEN <<>>
    ELSE IF ~({"filename", "status"} \subseteq cols)
         THEN [k \in Range(filenames) |-> ""]
         ELSE FillMissing(
                 ByFilename(SelectSeq(rows, LAMBDA r : r["filename"] \in Range(filenames)),
                            <<>>),
                 filenames, "")

\* MAX(percent): the largest non-null value, null when there is none
SqlMax(cells) ==
    LET numbers == {c[1] : c \in cells \ {NULL}}
    IN IF numbers = {} THEN NULL
       ELSE Val(CHOOSE m \in numbers : \A n \in numbers : n <= m)

\* COALESCE(series_suffix, '')
SuffixOf(row) == TextOrEmpty(row["series_suffix"])

\* the rows p2, p3 of the subqueries: same prefix and same COALESCEd suffix as row i
VersionGroup(rows, i) ==
    {j \in DOMAIN rows : /\ rows[i]["series_prefix"] # NULL
                         /\ rows[j]["series_prefix"] = rows[i]["series_prefix"]
                         /\ SuffixOf(rows[j]) = SuffixOf(rows[i])}

\* mutant: ORDER BY rowid ASC LIMIT 1
FirstOf(group) == CHOOSE j \in group : \A k \in group : j <= k

\* ORDER BY rowid DESC LIMIT 1
LastOf(group) == CHOOSE j \in group : \A k \in group : k <= j

\* mutant: the percent of the last file of the version in place of MAX(percent)
find_other_versions_last_percent(cols, rows, series_prefix, current_suffix) ==
    IF ~({"filename", "percent", "series_prefix", "series_suffix"} \subseteq cols) THEN {}
    ELSE {<<SuffixOf(rows[i]),
            rows[LastOf(VersionGroup(rows, i))]["filename"],
            rows[LastOf(VersionGroup(rows, i))]["percent"]>> :
          i \in {i \in DOMAIN rows : /\ rows[i]["series_prefix"] = Val(series_prefix)
                                      /\ SuffixOf(rows[i]) # current_suffix}}

\* find_other_versions: the DISTINCT rows (suffix, last_filename, max_percent);
\* an SQL error gives the empty list
find_other_versions(cols, rows, series_prefix, current_suffix) ==
    IF ~({"filename", "percent", "series_prefix", "series_suffix"} \subseteq cols) THEN {}
    ELSE {<<SuffixOf(rows[i]),
            rows[LastOf(VersionGroup(rows, i))]["filename"],
            SqlMax({rows[j]["percent"] : j \in VersionGroup(rows, i)})>> :
          i \in {i \in DOMAIN rows : /\ rows[i]["series_prefix"] = Val(series_prefix)
                                      /\ SuffixOf(rows[i]) # current_suffix}}

\* the key of a series_settings row
SeriesWhere(series_prefix, series_suffix) ==
    [series_prefix |-> Val(series_prefix), series_suffix |-> Val(series_suffix)]

\* SELECT COUNT(*) ... > 0; an sqlite3.Error (no such table) gives False
series_settings_exist(cols, rows, series_prefix, series_suffix) ==
    /\ SeriesKey \subseteq cols
    /\ Select(rows, SeriesKey, SeriesWhere(series_prefix, series_suffix)) # <<>>

\* the row the partial setters insert: the flags 0 and the columns they set
DefaultRow(series_prefix, series_suffix, set) ==
    LET base == [series_prefix |-> Val(series_prefix), series_suffix |-> Val(series_suffix),
                 autoplay |-> Val(0), skip_intro |-> Val(0), skip_outro |-> Val(0)]
    IN [c \in (DOMAIN base) \cup (DOMAIN set) |->
          IF c \in DOMAIN set THEN set[c] ELSE base[c]]

\* if not series_settings_exist: INSERT the default row; else: UPDATE SET set
InsertOrUpdate(cols, rows, series_prefix, series_suffix, set) ==
    IF ~series_settings_exist(cols, rows, series_prefix, series_suffix)
    THEN ExecInsert(cols, rows, SeriesKey, DefaultRow(series_prefix, series_suffix, set))
    ELSE ExecUpdate(cols, rows, SeriesKey, SeriesWhere(series_prefix, series_suffix), set)

\* mutant: the duration written by an upsert of the whole row of settings
set_credits_duration_clobbering(cols, rows, series_prefix, series_suffix, duration) ==
    IF duration < 0 THEN Rejected(rows)
    ELSE LET set == [autoplay |-> Val(0), skip_intro |-> Val(0), skip_outro |-> Val(0),
                     intro_start |-> NULL, intro_end |-> NULL,
                     credits_duration |-> Val(duration)]
         IN ExecUpsert(cols, rows, SeriesKey,
                       DefaultRow(series_prefix, series_suffix, set), set)

set_credits_duration(cols, rows, series_prefix, series_suffix, duration) ==
    IF duration < 0 THEN Rejected(rows)
    ELSE InsertOrUpdate(cols, rows, series_prefix, series_suffix,
                        [credits_duration |-> Val(duration)])

\* mutant: DO UPDATE SET c = COALESCE(?, c) for the optional columns
save_series_settings_keeping(cols, rows, series_prefix, series_suffix, autoplay, skip_intro, skip_outro, intro_start, intro_end, credits_duration) ==
    LET set == [autoplay |-> Val(autoplay), skip_intro |-> Val(skip_intro),
                skip_outro |-> Val(skip_outro), intro_start |-> intro_start,
                intro_end |-> intro_end, credits_duration |-> credits_duration]
        given == [c \in {c \in DOMAIN set : set[c] # NULL} |-> set[c]]
    IN IF ~(DOMAIN set \subseteq cols) THEN SqlError(rows)
       ELSE ExecUpsert(cols, rows, SeriesKey,
                       DefaultRow(series_prefix, series_suffix, set), given)

save_series_settings(cols, rows, series_prefix, series_suffix, autoplay, skip_intro, skip_outro, intro_start, intro_end, credits_duration) ==
    LET set == [autoplay |-> Val(autoplay), skip_intro |-> Val(skip_intro),
                skip_outro |-> Val(skip_outro), intro_start |-> intro_start,
                intro_end |-> intro_end, credits_duration |-> credits_duration]
    IN ExecUpsert(cols, rows, SeriesKey,
                  DefaultRow(series_prefix, series_suffix, set), set)

\* str(COALESCE(v, '')) of a fetched number
CoalesceStr(v) == IF v = NULL THEN "" ELSE ToString(v[1])

\* get_series_settings: None (here NULL) when there is no row or the query
\* raises; the six fields of the row are held as str() writes them
get_series_settings(cols, rows, series_prefix, series_suffix) ==
    LET want == {"autoplay", "skip_intro", "skip_outro",
                 "intro_start", "intro_end", "credits_duration"}
        got == Select(rows, SeriesKey, SeriesWhere(series_prefix, series_suffix))
    IN IF ~((SeriesKey \cup want) \subseteq cols) \/ got = <<>> THEN NULL
       ELSE Val(<<PyStr(got[1]["autoplay"]), PyStr(got[1]["skip_intro"]),
                  PyStr(got[1]["skip_outro"]), CoalesceStr(got[1]["intro_start"]),
                  CoalesceStr(got[1]["intro_end"]),
                  CoalesceStr(got[1]["credits_duration"])>>)

\* mutant: result[0] if result and result[0] else None
get_credits_duration_truthy(cols, rows, series_prefix, series_suffix) ==
    LET got == Select(rows, SeriesKey, SeriesWhere(series_prefix, series_suffix))
    IN IF ~((SeriesKey \cup {"credits_duration"}) \subseteq cols) \/ got = <<>> THEN NULL
       ELSE IF got[1]["credits_duration"] = Val(0) THEN NULL
       ELSE got[1]["credits_duration"]

\* get_credits_duration: result[0] if result and result[0] is not None else None
get_credits_duration(cols, rows, series_prefix, series_suffix) ==
    LET got == Select(rows, SeriesKey, SeriesWhere(series_prefix, series_suffix))
    IN IF ~((SeriesKey \cup {"credits_duration"}) \subseteq cols) \/ got = <<>> THEN NULL
       ELSE got[1]["credits_duration"]

\* None (here NULL) when there is no row or the query raises
get_skip_markers(cols, rows, series_prefix, series_suffix) ==
    LET want == {"intro_start", "intro_end", "credits_duration"}
        got == Select(rows, SeriesKey, SeriesWhere(series_prefix, series_suffix))
    IN IF ~((SeriesKey \cup want) \subseteq cols) \/ got = <<>> THEN NULL
       ELSE Val([c \in want |-> got[1][c]])

\* mutant: the markers written before the test that the end lies after the
\* start, which then reports the failure
set_intro_markers_late_check(cols, rows, series_prefix, series_suffix, start, end) ==
    IF start < 0 \/ end < 0 THEN Rejected(rows)
    ELSE LET r == InsertOrUpdate(cols, rows, series_prefix, series_suffix,
                                 [intro_start |-> Val(start), intro_end |-> Val(end)])
         IN IF end <= start THEN Rejected(r.rows) ELSE r

\* mutant: the test that the end lies after the start left out
set_intro_markers_unordered(cols, rows, series_prefix, series_suffix, start, end) ==
    IF start < 0 \/ end < 0 THEN Rejected(rows)
    ELSE InsertOrUpdate(cols, rows, series_prefix, series_suffix,
                        [intro_start |-> Val(start), intro_end |-> Val(end)])

set_intro_markers(cols, rows, series_prefix, series_suffix, start, end) ==
    IF start < 0 \/ end < 0 THEN Rejected(rows)
    ELSE IF end <= start THEN Rejected(rows)
    ELSE InsertOrUpdate(cols, rows, series_prefix, series_suffix,
                        [intro_start |-> Val(start), intro_end |-> Val(end)])

set_outro_marker(cols, rows, series_prefix, series_suffix, start) ==
    IF start < 0 THEN Rejected(rows)
    ELSE InsertOrUpdate(cols, rows, series_prefix, series_suffix,
                        [outro_start |-> Val(start)])

\* mutant: the row of the series deleted in place of the UPDATE
clear_skip_markers_deleting(cols, rows, series_prefix, series_suffix, marker_type) ==
    IF marker_type \in {"intro", "outro", "all"}
    THEN SqlOk(SelectSeq(rows, LAMBDA r :
                 ~KeyEq(r, SeriesWhere(series_prefix, series_suffix), SeriesKey)))
    ELSE Rejected(rows)

clear_skip_markers(cols, rows, series_prefix, series_suffix, marker_type) ==
    LET where == SeriesWhere(series_prefix, series_suffix)
    IN IF marker_type = "intro"
       THEN ExecUpdate(cols, rows, SeriesKey, where,
                       [intro_start |-> NULL, intro_end |-> NULL])
       ELSE IF marker_type = "outro"
       THEN ExecUpdate(cols, rows, SeriesKey, where, [outro_start |-> NULL])
       ELSE IF marker_type = "all"
       THEN ExecUpdate(cols, rows, SeriesKey, where,
                       [intro_start |-> NULL, intro_end |-> NULL, outro_start |-> NULL])
       ELSE Rejected(rows)

-----------------------------------------------------------------------------
(* The store a command finds *)

\* a row RELIS save_playback wrote: no status, no outro_triggered
LegacyPlaybackRow ==
    [filename |-> <<"d", "/", "a">>, position |-> Val(10), duration |-> Val(100),
     percent |-> Val(10), series_prefix |-> NULL, series_suffix |-> NULL,
     description |-> NULL]

\* a row RELIS save_series_settings wrote: outro_start, no credits_duration
LegacySeriesRow ==
    [series_prefix |-> Val("Show"), series_suffix |-> Val("720p"),
     autoplay |-> Val(1), skip_intro |-> Val(1), skip_outro |-> Val(0),
     intro_start |-> Val(10), intro_end |-> Val(20), outro_start |-> Val(300),
     description |-> NULL]

NoCommand == [op |-> "none", args |-> <<>>, ok |-> TRUE, out |-> <<>>, exit |-> 0]

\* no database file yet: sqlite3.connect creates an empty one
FreshStore ==
    /\ pcols = {} /\ playback = <<>>
    /\ scols = {} /\ series = <<>>

\* a database file the first release (RELIS) left behind
LegacyStore ==
    /\ pcols = LegacyPlaybackCols /\ playback \in {<<>>, <<LegacyPlaybackRow>>}
    /\ scols = LegacySeriesCols /\ series \in {<<>>, <<LegacySeriesRow>>}

\* the CLI processes that run a command step by step
Procs == {1, 2}

\* a process that runs no command
NoInvocation ==
    [cmd |-> "none", args |-> <<>>, pc |-> "done", conn |-> "none", opened |-> 0,
     exists |-> FALSE, tx |-> NULL, ok |-> FALSE, ended |-> "none", order |-> 0]

Init ==
    /\ last = NoCommand
    /\ (FreshStore \/ LegacyStore)
    /\ procs = [p \in Procs |-> NoInvocation]

\* print("OK" if success else "ERROR"); return 0 if success else 1
Report(op, args, success) ==
    [op |-> op, args |-> args, ok |-> success,
     out |-> IF success THEN "OK" ELSE "ERROR", exit |-> IF success THEN 0 ELSE 1]

-----------------------------------------------------------------------------
(* CLI commands on the playback table *)

cli_init_db ==
    LET r == init_db(pcols, playback, scols, series)
    IN /\ pcols' = r.pcols /\ playback' = r.playback
       /\ scols' = r.scols /\ series' = r.series
       /\ last' = Report("init", <<>>, r.ok)
       /\ UNCHANGED procs

cli_save_playback(filename, position, duration, percent, prefix, suffix) ==
    LET r == save_playback(pcols, playback, filename, position, duration, percent,
                           OptText(prefix), OptText(suffix))
    IN /\ playback' = r.rows
       /\ last' = Report("save_playback",
                         <<filename, position, duration, percent, prefix, suffix>>, r.ok)
       /\ UNCHANGED <<pcols, scols, series, procs>>

cli_set_outro_triggered(filename, triggered) ==
    LET r == set_outro_triggered(pcols, playback, filename, triggered)
    IN /\ triggered \in {0, 1}
       /\ playback' = r.rows
       /\ last' = Report("set-outro-triggered", <<filename, triggered>>, r.ok)
       /\ UNCHANGED <<pcols, scols, series, procs>>

cli_get_playback_batch(directory, filenames) ==
    /\ Len(filenames) >= 1
    /\ \E order \in FetchOrders(playback, full_paths(directory, filenames)) :
          last' = [op |-> "get_batch", args |-> <<directory, filenames>>, ok |-> TRUE,
                   out |-> get_playback_batch(pcols, playback, directory, filenames, order),
                   exit |-> 0]
    /\ UNCHANGED <<store, procs>>

cli_get_playback_batch_status(directory, filenames) ==
    /\ Len(filenames) >= 1
    /\ last' = [op |-> "get_batch_status", args |-> <<directory, filenames>>, ok |-> TRUE,
                out |-> get_playback_batch_status(pcols, playback, directory, filenames),
                exit |-> 0]
    /\ UNCHANGED <<store, procs>>

\* prints the fields joined by | and exits 0, or prints nothing and exits 1
cli_get_playback(filename) ==
    LET result == get_playback(pcols, playback, filename)
    IN /\ last' = [op |-> "get_playback", args |-> <<filename>>,
                   ok |-> result # NULL, out |-> result,
                   exit |-> IF result # NULL THEN 0 ELSE 1]
       /\ UNCHANGED <<store, procs>>

cli_get_playback_percent(filename) ==
    /\ last' = [op |-> "get_percent", args |-> <<filename>>, ok |-> TRUE,
                out |-> PyStr(get_playback_percent(pcols, playback, filename)),
                exit |-> 0]
    /\ UNCHANGED <<store, procs>>

cli_get_outro_triggered(filename) ==
    /\ last' = [op |-> "get-outro-triggered", args |-> <<filename>>, ok |-> TRUE,
                out |-> PyStr(get_outro_triggered(pcols, playback, filename)),
                exit |-> 0]
    /\ UNCHANGED <<store, procs>>

\* one line suffix|last_filename|max_percent for every row of the result
cli_find_other_versions(series_prefix, current_suffix) ==
    /\ last' = [op |-> "find_versions", args |-> <<series_prefix, current_suffix>>,
                ok |-> TRUE,
                out |-> {<<row[1], row[2], PyStr(row[3])>> :
                         row \in find_other_versions(pcols, playback, series_prefix,
                                                     current_suffix)},
                exit |-> 0]
    /\ UNCHANGED <<store, procs>>

-----------------------------------------------------------------------------
(* CLI commands on the series_settings table *)

cli_save_series_settings(series_prefix, series_suffix, autoplay, skip_intro, skip_outro, intro_start, intro_end, outro_start) ==
    LET r == save_series_settings(scols, series, series_prefix, series_suffix, autoplay,
                                  skip_intro, skip_outro, intro_start, intro_end, outro_start)
    IN /\ series' = r.rows
       /\ last' = Report("save_settings",
                         <<series_prefix, series_suffix, autoplay, skip_intro, skip_outro,
                           intro_start, intro_end, outro_start>>, r.ok)
       /\ UNCHANGED <<pcols, playback, scols, procs>>

\* prints the fields joined by | and exits 0, or prints nothing and exits 1
cli_get_series_settings(series_prefix, series_suffix) ==
    LET result == get_series_settings(scols, series, series_prefix, series_suffix)
    IN /\ last' = [op |-> "get_settings", args |-> <<series_prefix, series_suffix>>,
                   ok |-> result # NULL, out |-> result,
                   exit |-> IF result # NULL THEN 0 ELSE 1]
       /\ UNCHANGED <<store, procs>>

\* prints the duration and exits 0, or prints nothing and exits 1
cli_get_credits_duration(series_prefix, series_suffix) ==
    LET duration == get_credits_duration(scols, series, series_prefix, series_suffix)
    IN /\ last' = [op |-> "get-credits-duration", args |-> <<series_prefix, series_suffix>>,
                   ok |-> duration # NULL,
                   out |-> IF duration # NULL THEN PyStr(duration) ELSE "",
                   exit |-> IF duration # NULL THEN 0 ELSE 1]
       /\ UNCHANGED <<store, procs>>

cli_get_skip_markers(series_prefix, series_suffix) ==
    LET result == get_skip_markers(scols, series, series_prefix, series_suffix)
    IN /\ last' = [op |-> "get-skip-markers", args |-> <<series_prefix, series_suffix>>,
                   ok |-> result # NULL, out |-> result,
                   exit |-> IF result # NULL THEN 0 ELSE 1]
       /\ UNCHANGED <<store, procs>>

cli_set_intro(series_prefix, series_suffix, start, end) ==
    LET r == set_intro_markers(scols, series, series_prefix, series_suffix, start, end)
    IN /\ series' = r.rows
       /\ last' = Report("set-intro", <<series_prefix, series_suffix, start, end>>, r.ok)
       /\ UNCHANGED <<pcols, playback, scols, procs>>

cli_set_outro(series_prefix, series_suffix, start) ==
    LET r == set_outro_marker(scols, series, series_prefix, series_suffix, start)
    IN /\ series' = r.rows
       /\ last' = Report("set-outro", <<series_prefix, series_suffix, start>>, r.ok)
       /\ UNCHANGED <<pcols, playback, scols, procs>>

cli_clear_skip(series_prefix, series_suffix, marker_type) ==
    LET r == clear_skip_markers(scols, series, series_prefix, series_suffix, marker_type)
    IN /\ series' = r.rows
       /\ last' = Report("clear-skip", <<series_prefix, series_suffix, marker_type>>, r.ok)
       /\ UNCHANGED <<pcols, playback, scols, procs>>

cli_set_credits_duration(series_prefix, series_suffix, duration) ==
    LET r == set_credits_duration(scols, series, series_prefix, series_suffix, duration)
    IN /\ series' = r.rows
       /\ last' = Report("set-credits-duration",
                         <<series_prefix, series_suffix, duration>>, r.ok)
       /\ UNCHANGED <<pcols, playback, scols, procs>>

\* _calculate_status on its own
calculate_status(percent) ==
    /\ last' = [op |-> "_calculate_status", args |-> <<percent>>, ok |-> TRUE,
                out |-> _calculate_status(percent), exit |-> 0]
    /\ UNCHANGED <<store, procs>>

-----------------------------------------------------------------------------
(* Inputs *)

\* file names as the player stores them
Files == {<<"a">>, <<"d", "/", "a">>}

\* position, duration, percent of a save
Progress == {<<0, 100, 0>>, <<10, 100, 10>>, <<50, 100, 50>>, <<95, 100, 95>>, <<0, 100, -1>>}

\* the optional series words of a save ("" when omitted)
SeriesWords == {<<"", "">>, <<"Show", "720p">>}

\* the files and the prefix and suffix words of the version search
VersionFiles == {<<"a">>, <<"b">>, <<"c">>}

VersionWords == {<<"Show", "720p">>, <<"Show", "1080p">>, <<"Show", "">>, <<"Other", "720p">>}

\* the percents _calculate_status is explored on
PercentRange == (0 - MaxOver) .. (100 + MaxOver)

\* stored paths, directories and requested names of the batch query
BatchFiles == {<<"d", "/", "a">>, <<"d", "/", "s", "/", "a">>, <<"e", "/", "a">>}

Dirs == {<<"d">>, <<"e">>}

Requested == {<<"a">>, <<"b">>, <<"s", "/", "a">>}

\* the lists of distinct requested names, up to MaxBatch long
NameLists ==
    {fs \in UNION {[1..n -> Requested] : n \in 1..MaxBatch} :
        \A i, j \in DOMAIN fs : i # j => fs[i] # fs[j]}

\* series keys (prefix, suffix)
SeriesKeys == {<<"Show", "720p">>, <<"Show", "1080p">>}

\* autoplay, skip_intro, skip_outro of a full save
Flags == {<<1, 1, 0>>}

\* intro_start, intro_end of a full save (an omitted word is NULL)
IntroWords == {<<NULL, NULL>>, <<Val(20), Val(10)>>}

\* start, end of set-intro
IntroPairs == {<<10, 20>>, <<20, 10>>, <<10, 10>>, <<-1, 5>>, <<5, -1>>}

MarkerTypes == {"intro", "outro", "all", "credits"}

-----------------------------------------------------------------------------
(* Specifications *)

\* the writers of the playback table
NextPlayback ==
    \/ cli_init_db
    \/ \E f \in Files, p \in Progress, w \in SeriesWords :
          cli_save_playback(f, p[1], p[2], p[3], w[1], w[2])
    \/ \E f \in Files, t \in {0, 1} : cli_set_outro_triggered(f, t)
    \/ \E f \in Files : cli_get_playback(f)

SpecPlayback == Init /\ [][NextPlayback]_vars

\* the batch query over stored paths
NextBatch ==
    \/ cli_init_db
    \/ \E f \in BatchFiles, p \in {<<50, 100, 50>>, <<95, 100, 95>>} :
          cli_save_playback(f, p[1], p[2], p[3], "", "")
    \/ \E f \in BatchFiles : cli_set_outro_triggered(f, 1)
    \/ \E d \in Dirs, fs \in NameLists : cli_get_playback_batch(d, fs)

SpecBatch == Init /\ [][NextBatch]_vars

\* both batch queries over bare names and full paths
NextBatchStatus ==
    \/ cli_init_db
    \/ \E f \in Files, p \in {<<0, 100, 0>>, <<50, 100, 50>>, <<95, 100, 95>>} :
          cli_save_playback(f, p[1], p[2], p[3], "", "")
    \/ \E f \in Files : cli_set_outro_triggered(f, 1)
    \/ \E fs \in NameLists : cli_get_playback_batch(<<"d">>, fs)
    \/ \E fs \in NameLists : cli_get_playback_batch_status(<<"d">>, fs)

SpecBatchStatus == Init /\ [][NextBatchStatus]_vars

\* the single-file readers of playback after saves and flag writes
NextPlaybackRead ==
    \/ cli_init_db
    \/ \E f \in Files, p \in {<<0, 100, 0>>, <<50, 100, 50>>} :
          cli_save_playback(f, p[1], p[2], p[3], "", "")
    \/ \E f \in Files, t \in {0, 1} : cli_set_outro_triggered(f, t)
    \/ \E f \in Files : cli_get_playback_percent(f)
    \/ \E f \in Files : cli_get_outro_triggered(f)

SpecPlaybackRead == Init /\ [][NextPlaybackRead]_vars

\* files of several versions of a series and the search for the other versions
NextVersions ==
    \/ cli_init_db
    \/ \E f \in VersionFiles, p \in {10, 50}, w \in VersionWords :
          cli_save_playback(f, p, 100, p, w[1], w[2])
    \/ \E w \in VersionWords : cli_find_other_versions(w[1], w[2])

SpecVersions == Init /\ [][NextVersions]_vars

\* every command that writes, on both tables, for two files and one series
NextStore ==
    \/ cli_init_db
    \/ \E f \in Files : cli_save_playback(f, 50, 100, 50, "", "")
    \/ \E f \in Files : cli_set_outro_triggered(f, 1)
    \/ cli_save_series_settings("Show", "720p", 1, 1, 0, NULL, NULL, NULL)
    \/ \E i \in {<<10, 20>>, <<20, 10>>} : cli_set_intro("Show", "720p", i[1], i[2])
    \/ \E o \in {300, -1} : cli_set_outro("Show", "720p", o)
    \/ \E t \in {"intro", "all", "credits"} : cli_clear_skip("Show", "720p", t)
    \/ \E d \in {60, -1} : cli_set_credits_duration("Show", "720p", d)

SpecStore == Init /\ [][NextStore]_vars

\* the settings of a series written whole and in part, and read back
NextSettings ==
    \/ cli_init_db
    \/ \E k \in SeriesKeys, i \in {<<NULL, NULL>>, <<Val(10), Val(20)>>}, c \in {NULL, Val(0), Val(60)} :
          cli_save_series_settings(k[1], k[2], 1, 1, 0, i[1], i[2], c)
    \/ \E k \in SeriesKeys, d \in {0, 60, -1} : cli_set_credits_duration(k[1], k[2], d)
    \/ \E k \in SeriesKeys : cli_get_series_settings(k[1], k[2])
    \/ \E k \in SeriesKeys : cli_get_credits_duration(k[1], k[2])

SpecSettings == Init /\ [][NextSettings]_vars

\* an integer that SQLite's INTEGER cannot hold: int(args[1]) accepts it and
\* binding it raises OverflowError, which no method catches
TooBig == MaxSqlInt + 1

\* the commands the processes run, with their arguments
Invocations ==
    {<<"save_playback", <<(<<"a">>), 10, 100, 10, "Show", "720p">>>>,
     <<"save_playback", <<(<<"a">>), 95, 100, 95, "", "">>>>,
     <<"save_playback", <<(<<"a">>), TooBig, 100, 50, "", "">>>>,
     <<"set-intro", <<"Show", "720p", 10, 20>>>>,
     <<"set-intro", <<"Show", "720p", 20, 10>>>>,
     <<"set-credits-duration", <<"Show", "720p", 60>>>>,
     <<"set-credits-duration", <<"Show", "720p", -1>>>>,
     <<"get-credits-duration", <<"Show", "720p">>>>}

\* a process at the entry of its command
Started(invocation) ==
    [NoInvocation EXCEPT !.cmd = invocation[1], !.args = invocation[2], !.pc = "start"]

\* another connection holds the write lock: it has executed a statement that
\* it has not committed
Locked(p) == \E q \in Procs \ {p} : procs[q].pc = "executed"

\* the columns a partial setter writes
SetterCols(cmd, args) ==
    IF cmd = "set-intro" THEN [intro_start |-> Val(args[3]), intro_end |-> Val(args[4])]
    ELSE [credits_duration |-> Val(args[3])]

\* the values a partial setter refuses before any statement
SetterRejects(cmd, args) ==
    IF cmd = "set-intro" THEN args[3] < 0 \/ args[4] < 0 \/ args[4] <= args[3]
    ELSE args[3] < 0

\* the statement of the command on the committed tables: the upsert of
\* save_playback, the INSERT or the UPDATE a setter chose by its existence test
Statement(p) ==
    LET cmd == procs[p].cmd
        args == procs[p].args
    IN IF cmd = "save_playback"
       THEN save_playback(pcols, playback, args[1], args[2], args[3], args[4],
                          OptText(args[5]), OptText(args[6]))
       ELSE IF ~procs[p].exists
            THEN ExecInsert(scols, series, SeriesKey,
                            DefaultRow(args[1], args[2], SetterCols(cmd, args)))
            ELSE ExecUpdate(scols, series, SeriesKey, SeriesWhere(args[1], args[2]),
                            SetterCols(cmd, args))

\* with VlcDatabase() as db: __enter__ connects
Enter(p) ==
    /\ procs[p].pc = "start"
    /\ procs' = [procs EXCEPT ![p].pc = "entered", ![p].conn = "open",
                              ![p].opened = procs[p].opened + 1]
    /\ UNCHANGED <<store, last>>

\* a setter tests its values and then calls series_settings_exist
Check(p) ==
    /\ procs[p].pc = "entered"
    /\ procs[p].cmd \in {"set-intro", "set-credits-duration"}
    /\ procs' = IF SetterRejects(procs[p].cmd, procs[p].args)
                THEN [procs EXCEPT ![p].pc = "returned", ![p].ok = FALSE]
                ELSE [procs EXCEPT ![p].pc = "checked",
                                   ![p].exists = series_settings_exist(scols, series,
                                                    procs[p].args[1], procs[p].args[2])]
    /\ UNCHANGED <<store, last>>

\* cursor.execute of the writing statement: OverflowError escapes the method;
\* while another connection holds the write lock the statement waits, and
\* fails with "database is locked" when the wait times out; an sqlite3.Error
\* makes the method return False
Execute(p) ==
    /\ \/ procs[p].pc = "entered" /\ procs[p].cmd = "save_playback"
       \/ procs[p].pc = "checked"
    /\ procs' = IF procs[p].cmd = "save_playback" /\ procs[p].args[2] > MaxSqlInt
                THEN [procs EXCEPT ![p].pc = "raised"]
                ELSE IF Locked(p) \/ ~Statement(p).ok
                THEN [procs EXCEPT ![p].pc = "returned", ![p].ok = FALSE]
                ELSE [procs EXCEPT ![p].pc = "executed", ![p].tx = Val(Statement(p).rows)]
    /\ UNCHANGED <<store, last>>

\* self.conn.commit(); return True
Commit(p) ==
    /\ procs[p].pc = "executed"
    /\ IF procs[p].cmd = "save_playback"
       THEN playback' = procs[p].tx[1] /\ UNCHANGED series
       ELSE series' = procs[p].tx[1] /\ UNCHANGED playback
    /\ procs' = [procs EXCEPT ![p].pc = "returned", ![p].ok = TRUE, ![p].tx = NULL,
                   ![p].order = 1 + Cardinality({q \in Procs : procs[q].order > 0})]
    /\ UNCHANGED <<pcols, scols, last>>

\* get_credits_duration: one SELECT
Read(p) ==
    /\ procs[p].pc = "entered"
    /\ procs[p].cmd = "get-credits-duration"
    /\ procs' = [procs EXCEPT ![p].pc = "returned",
                   ![p].ok = get_credits_duration(scols, series, procs[p].args[1],
                                                  procs[p].args[2]) # NULL]
    /\ UNCHANGED <<store, last>>

\* mutant: the connection closed only when no exception escaped
ExitKeepsOpenOnError(p) ==
    /\ procs[p].pc \in {"returned", "raised"}
    /\ procs' = [procs EXCEPT ![p].pc = "done",
                   ![p].conn = IF procs[p].pc = "raised" THEN "open" ELSE "closed",
                   ![p].ended = IF procs[p].pc = "raised" THEN "rollback" ELSE "commit"]
    /\ last' = IF procs[p].pc = "raised"
               THEN [op |-> procs[p].cmd, args |-> procs[p].args, ok |-> FALSE,
                     out |-> "Traceback", exit |-> 1]
               ELSE Report(procs[p].cmd, procs[p].args, procs[p].ok)
    /\ UNCHANGED store

\* the command prints its report and returns, or the exception goes on;
\* __exit__ commits or rolls back, and closes
Exit(p) ==
    /\ procs[p].pc \in {"returned", "raised"}
    /\ procs' = [procs EXCEPT ![p].pc = "done", ![p].conn = "closed",
                   ![p].ended = IF procs[p].pc = "raised" THEN "rollback" ELSE "commit"]
    /\ last' = IF procs[p].pc = "raised"
               THEN [op |-> procs[p].cmd, args |-> procs[p].args, ok |-> FALSE,
                     out |-> "Traceback", exit |-> 1]
               ELSE Report(procs[p].cmd, procs[p].args, procs[p].ok)
    /\ UNCHANGED store

\* two processes on a store that init has created, without rows
InitRace ==
    /\ last = NoCommand
    /\ pcols = PlaybackCols /\ playback = <<>>
    /\ scols = SeriesCols /\ series = <<>>
    /\ procs \in [Procs -> {Started(i) : i \in Invocations}]

\* the steps of the two processes in any order
NextRace ==
    \/ \E p \in Procs : Enter(p)
    \/ \E p \in Procs : Check(p)
    \/ \E p \in Procs : Execute(p)
    \/ \E p \in Procs : Commit(p)
    \/ \E p \in Procs : Read(p)
    \/ \E p \in Procs : Exit(p)

SpecRace == InitRace /\ [][NextRace]_vars

\* rows created and updated in any order, and the search for the versions
NextVersionOrder ==
    \/ cli_init_db
    \/ \E f \in Files, p \in {10, 50}, x \in {"720p", ""} :
          cli_save_playback(f, p, 100, p, "Show", x)
    \/ \E f \in Files : cli_set_outro_triggered(f, 1)
    \/ \E x \in {"720p", "1080p"} : cli_find_other_versions("Show", x)

SpecVersionOrder == Init /\ [][NextVersionOrder]_vars

\* the commands on series_settings
NextSeries ==
    \/ cli_init_db
    \/ \E k \in SeriesKeys, f \in Flags, i \in IntroWords, c \in {NULL, Val(60)} :
          cli_save_series_settings(k[1], k[2], f[1], f[2], f[3], i[1], i[2], c)
    \/ \E k \in SeriesKeys : cli_get_skip_markers(k[1], k[2])
    \/ \E k \in SeriesKeys, i \in IntroPairs : cli_set_intro(k[1], k[2], i[1], i[2])
    \/ \E k \in SeriesKeys, o \in {300, -1} : cli_set_outro(k[1], k[2], o)
    \/ \E k \in SeriesKeys, t \in MarkerTypes : cli_clear_skip(k[1], k[2], t)
    \/ \E k \in SeriesKeys, d \in {60, -1} : cli_set_credits_duration(k[1], k[2], d)

SpecSeries == Init /\ [][NextSeries]_vars

\* the status rule on its own
InitStatus == last = NoCommand /\ FreshStore /\ procs = [p \in Procs |-> NoInvocation]

NextStatus == \E p \in PercentRange : calculate_status(p)

SpecStatus == InitStatus /\ [][NextStatus]_vars

-----------------------------------------------------------------------------
(* Properties *)

\* init_db has returned True on this store: the columns it guarantees are there
Initialized == "outro_triggered" \in pcols /\ "credits_duration" \in scols

\* the store carries the schema of the first release
Legacy == "outro_start" \in scols

\* the status a reader finds in a row (none when the table has no such column)
StoredStatus(row) == IF "status" \in DOMAIN row THEN row["status"] ELSE NULL

\* the rule of the data model: >= 90 watched, 1..89 partial, otherwise none
StatusOfPercent(percent) ==
    IF percent = NULL THEN NULL
    ELSE IF percent[1] >= 90 THEN Val("watched")
    ELSE IF percent[1] >= 1 /\ percent[1] <= 89 THEN Val("partial")
    ELSE NULL

\* C1: after a save_playback or set-outro-triggered command on an initialized
\* store, every playback row's stored status is the status derived from its
\* stored percent.
C1_StatusDerivedFromPercent ==
    (Initialized /\ last.op \in {"save_playback", "set-outro-triggered"}) =>
        \A i \in DOMAIN playback :
            StoredStatus(playback[i]) = StatusOfPercent(playback[i]["percent"])

\* C1 on the stores init_db created itself (not a claim's formula)
FreshStoreStatusDerived ==
    (Initialized /\ ~Legacy) =>
        \A i \in DOMAIN playback :
            StoredStatus(playback[i]) = StatusOfPercent(playback[i]["percent"])

\* C2 as claimed: watched iff p >= 90, partial iff 1 <= p <= 89, none iff p = 0.
C2_StatusRuleAsClaimed ==
    last.op = "_calculate_status" =>
        LET p == last.args[1]
        IN /\ (last.out = Val("watched") <=> p >= 90)
           /\ (last.out = Val("partial") <=> (1 <= p /\ p <= 89))
           /\ (last.out = NULL <=> p = 0)

\* C2 as amended: watched iff p >= 90, partial iff 1 <= p <= 89, none iff
\* p <= 0 (a negative percent has no status either).
C2_StatusRule ==
    last.op = "_calculate_status" =>
        LET p == last.args[1]
        IN /\ (last.out = Val("watched") <=> p >= 90)
           /\ (last.out = Val("partial") <=> (1 <= p /\ p <= 89))
           /\ (last.out = NULL <=> p <= 0)

\* the rule has been applied to a negative percent, which has no status
C2_Witness ==
    /\ last.op = "_calculate_status"
    /\ last.args[1] < 0
    /\ last.out = NULL

\* C3: at most one playback row per filename, and after a successful save the
\* row of that filename holds the saved position, duration and percent and the
\* status of that percent.
C3_UpsertOneRow ==
    /\ \A i, j \in DOMAIN playback :
          playback[i]["filename"] = playback[j]["filename"] => i = j
    /\ (last.op = "save_playback" /\ last.ok) =>
          \E i \in DOMAIN playback :
             /\ playback[i]["filename"] = last.args[1]
             /\ playback[i]["position"] = Val(last.args[2])
             /\ playback[i]["duration"] = Val(last.args[3])
             /\ playback[i]["percent"] = Val(last.args[4])
             /\ StoredStatus(playback[i]) = StatusOfPercent(Val(last.args[4]))

\* a save of (50, 100, 50) has succeeded on a file whose row was there before
\* (its flag was set by an earlier command), beside the row of another file
C3_Witness ==
    /\ last.op = "save_playback" /\ last.ok
    /\ last.args[2] = 50 /\ last.args[4] = 50
    /\ Len(playback) = 2
    /\ \E i \in DOMAIN playback :
          /\ playback[i]["filename"] = last.args[1]
          /\ playback[i]["outro_triggered"] = Val(1)
          /\ playback[i]["status"] = Val("partial")

\* C4: from any state of the store, a second save with the same arguments
\* leaves the playback table, and the result reported, as the first left them.
C4_SaveIdempotent ==
    \A f \in Files, p \in Progress, w \in SeriesWords :
        LET once == save_playback(pcols, playback, f, p[1], p[2], p[3],
                                  OptText(w[1]), OptText(w[2]))
            twice == save_playback(pcols, once.rows, f, p[1], p[2], p[3],
                                   OptText(w[1]), OptText(w[2]))
        IN twice = once

\* a save has just succeeded on a store with two rows, where saving other
\* values would change the table
C4_Witness ==
    /\ last.op = "save_playback" /\ last.ok
    /\ Len(playback) = 2
    /\ \E f \in Files, p \in Progress :
          save_playback(pcols, playback, f, p[1], p[2], p[3], NULL, NULL).rows # playback

\* C5: after init_db on a store with the legacy schema, the commands that
\* follow succeed instead of failing on a missing column.
C5_CommandsSucceedAfterInit ==
    (Legacy /\ Initialized /\ last.op \in {"save_playback", "set-outro-triggered"})
        => last.ok

\* the one row of a series key, when there is one
SeriesRow(rows, k) ==
    rows[CHOOSE i \in DOMAIN rows : KeyEq(rows[i], SeriesWhere(k[1], k[2]), SeriesKey)]

HasSeriesRow(rows, k) ==
    \E i \in DOMAIN rows : KeyEq(rows[i], SeriesWhere(k[1], k[2]), SeriesKey)

\* C6: on an initialized store, set-outro p s 300 on a row that set-intro left
\* with intro 10..20 succeeds and leaves the row with intro_start = 10,
\* intro_end = 20 and outro_start = 300.
C6_OutroKeepsIntro ==
    [][\A k \in SeriesKeys :
         (/\ Initialized
          /\ HasSeriesRow(series, k)
          /\ SeriesRow(series, k)["intro_start"] = Val(10)
          /\ SeriesRow(series, k)["intro_end"] = Val(20)
          /\ last'.op = "set-outro"
          /\ last'.args = <<k[1], k[2], 300>>)
         => (/\ last'.ok
             /\ HasSeriesRow(series', k)
             /\ SeriesRow(series', k)["intro_start"] = Val(10)
             /\ SeriesRow(series', k)["intro_end"] = Val(20)
             /\ "outro_start" \in DOMAIN SeriesRow(series', k)
             /\ SeriesRow(series', k)["outro_start"] = Val(300))]_vars

\* start < 0, end < 0 or end <= start
BadIntro(start, end) == start < 0 \/ end < 0 \/ end <= start

\* C7: set-intro with start < 0, end < 0 or end <= start reports failure and
\* leaves series_settings as it was: no row created, no row changed.
C7_BadIntroRejected ==
    [][(last'.op = "set-intro" /\ BadIntro(last'.args[3], last'.args[4]))
         => (~last'.ok /\ last'.out = "ERROR" /\ series' = series /\ scols' = scols)]_vars

\* set-intro 20 10 has been rejected on a key whose row holds intro 10..20,
\* while the other key has no row
C7_Witness ==
    /\ last.op = "set-intro" /\ ~last.ok
    /\ last.args[3] = 20 /\ last.args[4] = 10
    /\ Initialized
    /\ Len(series) = 1
    /\ HasSeriesRow(series, <<last.args[1], last.args[2]>>)
    /\ series[1]["intro_start"] = Val(10) /\ series[1]["intro_end"] = Val(20)

\* C8: every series_settings row with both intro markers set has
\* intro_end > intro_start.
C8_IntroOrdered ==
    \A i \in DOMAIN series :
        (series[i]["intro_start"] # NULL /\ series[i]["intro_end"] # NULL)
            => series[i]["intro_end"][1] > series[i]["intro_start"][1]

\* C9: the map get_batch returns has an entry for every requested name.
C9_BatchComplete ==
    last.op = "get_batch" => Range(last.args[2]) \subseteq DOMAIN last.out

\* two names were requested, one with a stored row and one without
C9_Witness ==
    /\ last.op = "get_batch"
    /\ last.args = << <<"d">>, << <<"a">>, <<"b">> >> >>
    /\ last.out[<<"a">>] = Val(50)
    /\ last.out[<<"b">>] = Val(0)

\* C10: get_batch maps every requested name f to the percent of the row
\* directory/f, or to 0 when there is none, and has no other keys.
C10_BatchExact ==
    last.op = "get_batch" =>
        LET directory == last.args[1]
            filenames == last.args[2]
            Path(f) == directory \o <<"/">> \o f
            Stored(f) == {i \in DOMAIN playback : playback[i]["filename"] = Path(f)}
        IN /\ DOMAIN last.out = Range(filenames)
           /\ \A f \in Range(filenames) :
                 /\ Stored(f) # {} =>
                       \E i \in Stored(f) : last.out[f] = playback[i]["percent"]
                 /\ Stored(f) = {} => last.out[f] = Val(0)

\* C11: get_batch_status maps every requested name f to the status of the
\* row whose filename is the bare f, whatever the directory, and to the empty
\* string when there is no such row or its status is null; it has no other key.
C11_BatchStatusBareName ==
    last.op = "get_batch_status" =>
        LET filenames == last.args[2]
            Stored(f) == {i \in DOMAIN playback : playback[i]["filename"] = f}
        IN /\ DOMAIN last.out = Range(filenames)
           /\ \A f \in Range(filenames) :
                 /\ Stored(f) = {} => last.out[f] = ""
                 /\ \A i \in Stored(f) :
                       last.out[f] = TextOrEmpty(StoredStatus(playback[i]))

\* d/a is stored as watched and there is no row a: get_batch_status d a
\* reports an empty status where get_batch d a reports 95
C11_Witness ==
    /\ last.op = "get_batch_status"
    /\ last.args = << <<"d">>, << <<"a">> >> >>
    /\ last.out[<<"a">>] = ""
    /\ "status" \in pcols
    /\ Len(playback) = 1
    /\ playback[1]["filename"] = <<"d", "/", "a">>
    /\ playback[1]["status"] = Val("watched")
    /\ get_playback_batch(pcols, playback, <<"d">>, << <<"a">> >>, <<1>>)[<<"a">>] = Val(95)

\* C12: get_percent prints an integer and exits 0: the stored percent of the
\* file when it has a row, 0 when it has none.
C12_PercentIsInteger ==
    last.op = "get_percent" =>
        LET percent == get_playback_percent(pcols, playback, last.args[1])
        IN /\ percent # NULL
           /\ last.out = ToString(percent[1])
           /\ last.exit = 0

\* the rows of a prefix and a suffix text (a null suffix is the empty text)
VersionRows(prefix, suffix) ==
    {i \in DOMAIN playback : /\ playback[i]["series_prefix"] = Val(prefix)
                             /\ TextOrEmpty(playback[i]["series_suffix"]) = suffix}

\* C13: find_versions p x gives exactly one entry for every suffix that occurs
\* in a row of prefix p and differs from x, none for x or for a suffix that
\* does not occur, and the entry's percent is the largest percent of the rows
\* of that prefix and suffix.
C13_OneEntryPerVersion ==
    last.op = "find_versions" =>
        LET prefix == last.args[1]
            exclude == last.args[2]
            Entries(suffix) == {e \in last.out : e[1] = suffix}
        IN /\ \A e \in last.out : e[1] # exclude /\ VersionRows(prefix, e[1]) # {}
           /\ \A w \in VersionWords :
                 (w[2] # exclude /\ VersionRows(prefix, w[2]) # {}) =>
                    /\ Cardinality(Entries(w[2])) = 1
                    /\ \A e \in Entries(w[2]) :
                          \E i \in VersionRows(prefix, w[2]) :
                             /\ e[3] = ToString(playback[i]["percent"][1])
                             /\ \A j \in VersionRows(prefix, w[2]) :
                                   playback[j]["percent"][1] <= playback[i]["percent"][1]

\* the excluded version has a file and is not reported; the one reported
\* version has two files, the last of them with the smaller percent
C13_Witness ==
    /\ last.op = "find_versions"
    /\ last.args = <<"Show", "1080p">>
    /\ "series_prefix" \in pcols
    /\ VersionRows("Show", "1080p") # {}
    /\ Cardinality(last.out) = 1
    /\ \E i, j \in VersionRows("Show", "") :
          i < j /\ playback[i]["percent"] = Val(50) /\ playback[j]["percent"] = Val(10)
    /\ \E e \in last.out : e[1] = "" /\ e[3] = "50"

\* C14: init on a store that init has already brought up to date reports OK
\* and leaves the columns and the rows of both tables as they were.
C14_SecondInitNoOp ==
    [][(Initialized /\ last'.op = "init") => (last'.ok /\ store' = store)]_vars

\* init has just run on a migrated legacy store whose rows carry values
\* written after the first init
C14_Witness ==
    /\ last.op = "init"
    /\ Initialized /\ Legacy
    /\ \E i \in DOMAIN playback : playback[i]["outro_triggered"] = Val(1)
    /\ \E i \in DOMAIN series : series[i]["credits_duration"] = Val(60)

\* the filenames of playback and the keys of series_settings
Filenames(rows) == {rows[i]["filename"] : i \in DOMAIN rows}

SeriesKeysOf(rows) == {<<rows[i]["series_prefix"], rows[i]["series_suffix"]>> : i \in DOMAIN rows}

\* C15: no command removes a row: the filenames of playback and the keys of
\* series_settings after a step include those before it.
C15_NoRowRemoved ==
    [][/\ Filenames(playback) \subseteq Filenames(playback')
       /\ SeriesKeysOf(series) \subseteq SeriesKeysOf(series')]_vars

\* clear-skip has succeeded on a series that still has its row, with the
\* intro markers cleared, next to a saved file
C15_Witness ==
    /\ last.op = "clear-skip"
    /\ last.ok
    /\ last.args[3] = "intro"
    /\ HasSeriesRow(series, <<last.args[1], last.args[2]>>)
    /\ SeriesRow(series, <<last.args[1], last.args[2]>>)["intro_start"] = NULL
    /\ playback # <<>>

\* the positions of the rows of a file
RowsOfFile(rows, filename) == {i \in DOMAIN rows : rows[i]["filename"] = filename}

\* C16: on an initialized store set-outro-triggered f t succeeds and changes
\* only the flag: a row of f keeps every other column, a missing row is
\* created with the flag t and every other column null, and the rows of the
\* other files and the columns of the table stay as they were.
C16_OnlyFlagChanges ==
    [][(Initialized /\ last'.op = "set-outro-triggered") =>
          LET f == last'.args[1]
              t == last'.args[2]
          IN /\ last'.ok
             /\ pcols' = pcols
             /\ \A i \in DOMAIN playback :
                   /\ i \in DOMAIN playback'
                   /\ playback'[i] = IF playback[i]["filename"] = f
                                     THEN [playback[i] EXCEPT !["outro_triggered"] = Val(t)]
                                     ELSE playback[i]
             /\ IF RowsOfFile(playback, f) # {}
                THEN Len(playback') = Len(playback)
                ELSE /\ Len(playback') = Len(playback) + 1
                     /\ playback'[Len(playback')] =
                           [c \in pcols |-> IF c = "filename" THEN f
                                            ELSE IF c = "outro_triggered" THEN Val(t)
                                            ELSE NULL]]_vars

\* the flag of a saved file with a series has been set next to another file,
\* and a bare row has been created for a file that was never saved
C16_Witness ==
    /\ last.op = "set-outro-triggered"
    /\ last.ok
    /\ Initialized
    /\ Len(playback) = 2
    /\ \E i, j \in DOMAIN playback :
          /\ playback[i]["percent"] = Val(95)
          /\ playback[i]["series_prefix"] = Val("Show")
          /\ playback[i]["outro_triggered"] = Val(1)
          /\ playback[j]["percent"] = NULL
          /\ playback[j]["outro_triggered"] = Val(1)

\* C17: get-outro-triggered gives 0 or 1 for every file: 0 at the start, the
\* written flag after a successful set-outro-triggered of the file, and the
\* value it gave before after every other command (init and save_playback
\* included).
C17_FlagLastWritten ==
    [][\A f \in Files :
         LET before == get_outro_triggered(pcols, playback, f)
             after == get_outro_triggered(pcols', playback', f)
         IN /\ last = NoCommand => before = Val(0)
            /\ after \in {Val(0), Val(1)}
            /\ after = IF /\ last'.op = "set-outro-triggered"
                          /\ last'.ok
                          /\ last'.args[1] = f
                       THEN Val(last'.args[2])
                       ELSE before]_vars

\* get-outro-triggered prints 1 for a file whose progress is saved, and the
\* row the first release left still reads 0
C17_Witness ==
    /\ last.op = "get-outro-triggered"
    /\ last.out = "1"
    /\ \E i \in RowsOfFile(playback, last.args[1]) : playback[i]["percent"] = Val(50)
    /\ \E f \in Files : /\ RowsOfFile(playback, f) # {}
                        /\ get_outro_triggered(pcols, playback, f) = Val(0)

\* C18: series_settings never has two rows of one key, and after a successful
\* save_settings p s a si so is ie cd, get_settings p s gives exactly
\* a, si, so, is, ie, cd with every null written as the empty string,
\* whatever the row held before.
C18_SaveThenGet ==
    [][/\ \A i, j \in DOMAIN series' :
             KeyEq(series'[i], series'[j], SeriesKey) => i = j
       /\ (last'.op = "save_settings" /\ last'.ok) =>
             get_series_settings(scols', series', last'.args[1], last'.args[2]) =
                Val(<<ToString(last'.args[3]), ToString(last'.args[4]),
                      ToString(last'.args[5]),
                      IF last'.args[6] = NULL THEN "" ELSE ToString(last'.args[6][1]),
                      IF last'.args[7] = NULL THEN "" ELSE ToString(last'.args[7][1]),
                      IF last'.args[8] = NULL THEN "" ELSE ToString(last'.args[8][1])>>)]_vars

\* save_settings without the optional arguments has succeeded on the row the
\* first release left with intro markers 10 and 20: the row is still the
\* only one of its key and its markers are now null
C18_Witness ==
    /\ last.op = "save_settings"
    /\ last.ok
    /\ last.args[6] = NULL /\ last.args[7] = NULL /\ last.args[8] = NULL
    /\ Legacy
    /\ HasSeriesRow(series, <<last.args[1], last.args[2]>>)
    /\ SeriesRow(series, <<last.args[1], last.args[2]>>)["outro_start"] = Val(300)
    /\ SeriesRow(series, <<last.args[1], last.args[2]>>)["intro_start"] = NULL
    /\ get_series_settings(scols, series, last.args[1], last.args[2]) =
          Val(<<"1", "1", "0", "", "", "">>)

\* C19: on an initialized store set-credits-duration p s d with d < 0 fails
\* and changes nothing; with d >= 0 it succeeds, a missing row is created with
\* the three flags 0, the intro markers null and credits_duration d, a row
\* that exists has only credits_duration set to d, and no other row changes.
C19_OnlyCreditsChange ==
    [][(Initialized /\ last'.op = "set-credits-duration") =>
          LET k == <<last'.args[1], last'.args[2]>>
              d == last'.args[3]
          IN IF d < 0 THEN ~last'.ok /\ store' = store
             ELSE /\ last'.ok
                  /\ scols' = scols
                  /\ \A i \in DOMAIN series :
                        /\ i \in DOMAIN series'
                        /\ series'[i] =
                              IF KeyEq(series[i], SeriesWhere(k[1], k[2]), SeriesKey)
                              THEN [series[i] EXCEPT !["credits_duration"] = Val(d)]
                              ELSE series[i]
                  /\ IF HasSeriesRow(series, k)
                     THEN Len(series') = Len(series)
                     ELSE /\ Len(series') = Len(series) + 1
                          /\ series'[Len(series')] =
                                [c \in scols |->
                                   IF c = "series_prefix" THEN Val(k[1])
                                   ELSE IF c = "series_suffix" THEN Val(k[2])
                                   ELSE IF c \in {"autoplay", "skip_intro", "skip_outro"}
                                        THEN Val(0)
                                   ELSE IF c = "credits_duration" THEN Val(d)
                                   ELSE NULL]]_vars

\* set-credits-duration 0 has succeeded on a row that save_settings wrote with
\* flags and intro markers, which are still there
C19_Witness ==
    /\ last.op = "set-credits-duration"
    /\ last.ok
    /\ last.args[3] = 0
    /\ Initialized
    /\ get_series_settings(scols, series, last.args[1], last.args[2]) =
          Val(<<"1", "1", "0", "10", "20", "0">>)

\* the credits duration a reader finds in a row (none when the table has no
\* such column)
StoredCredits(row) ==
    IF "credits_duration" \in DOMAIN row THEN row["credits_duration"] ELSE NULL

\* C20: get-credits-duration p s prints nothing and exits 1 exactly when there
\* is no row of (p, s) or its credits_duration is null; otherwise it prints
\* the stored duration and exits 0, a stored 0 included.
C20_NotFoundIffNull ==
    last.op = "get-credits-duration" =>
        LET k == <<last.args[1], last.args[2]>>
            absent == \/ ~HasSeriesRow(series, k)
                      \/ StoredCredits(SeriesRow(series, k)) = NULL
        IN /\ (last.exit = 1) <=> absent
           /\ last.exit \in {0, 1}
           /\ absent => last.out = ""
           /\ ~absent => last.out = ToString(StoredCredits(SeriesRow(series, k))[1])

\* a stored duration of 0 is printed as 0 with exit 0
C20_Witness ==
    /\ last.op = "get-credits-duration"
    /\ last.out = "0"
    /\ last.exit = 0
    /\ HasSeriesRow(series, <<last.args[1], last.args[2]>>)
    /\ StoredCredits(SeriesRow(series, <<last.args[1], last.args[2]>>)) = Val(0)

\* the columns a clear-skip scope sets to null
ClearedBy(scope) ==
    IF scope = "intro" THEN {"intro_start", "intro_end"}
    ELSE IF scope = "outro" THEN {"outro_start"}
    ELSE {"intro_start", "intro_end", "outro_start"}

\* C21: on an initialized store clear-skip p s scope on an existing row
\* succeeds for scope intro, outro and all, sets the columns of the scope to
\* null and leaves every other column of the row and every other row as they
\* were.
C21_ClearSucceeds ==
    [][(/\ Initialized
        /\ last'.op = "clear-skip"
        /\ last'.args[3] \in {"intro", "outro", "all"}
        /\ HasSeriesRow(series, <<last'.args[1], last'.args[2]>>)) =>
          /\ last'.ok
          /\ scols' = scols
          /\ Len(series') = Len(series)
          /\ \A i \in DOMAIN series :
                series'[i] =
                   IF KeyEq(series[i], SeriesWhere(last'.args[1], last'.args[2]), SeriesKey)
                   THEN [c \in DOMAIN series[i] |->
                           IF c \in ClearedBy(last'.args[3]) THEN NULL ELSE series[i][c]]
                   ELSE series[i]]_vars

MutatingOps ==
    {"init", "save_playback", "set-outro-triggered", "save_settings",
     "set-intro", "set-outro", "clear-skip", "set-credits-duration"}

AllDone == \A p \in Procs : procs[p].pc = "done"

\* the process runs save_playback with integers the store can hold
IsSave(p) == procs[p].cmd = "save_playback" /\ procs[p].args[2] <= MaxSqlInt

\* the row of playback has the six fields that the save_playback of p wrote
RowSavedBy(row, p) ==
    /\ row["position"] = Val(procs[p].args[2])
    /\ row["duration"] = Val(procs[p].args[3])
    /\ row["percent"] = Val(procs[p].args[4])
    /\ row["status"] = _calculate_status(procs[p].args[4])
    /\ row["series_prefix"] = OptText(procs[p].args[5])
    /\ row["series_suffix"] = OptText(procs[p].args[6])

Escapes(p) == procs[p].cmd = "save_playback" /\ procs[p].args[2] > MaxSqlInt

RowsKept(before, after) ==
    /\ Len(after) = Len(before)
    /\ \A i \in DOMAIN before : \A c \in DOMAIN before[i] : after[i][c] = before[i][c]

C27_LastIsNewestRow ==
    [][/\ \A i \in DOMAIN playback :
             i \in DOMAIN playback' /\ playback'[i]["filename"] = playback[i]["filename"]
       /\ \A x \in {"720p", "1080p"} :
             \A e \in find_other_versions(pcols', playback', "Show", x) :
                \E i \in DOMAIN playback' :
                   /\ playback'[i]["series_prefix"] = Val("Show")
                   /\ TextOrEmpty(playback'[i]["series_suffix"]) = e[1]
                   /\ playback'[i]["filename"] = e[2]
                   /\ \A j \in DOMAIN playback' :
                         (/\ playback'[j]["series_prefix"] = Val("Show")
                          /\ TextOrEmpty(playback'[j]["series_suffix"]) = e[1]) => j <= i]_vars

\* find_versions reports the file of the second row as the last of a version
\* of two files, although the first row was written to afterwards (its flag
\* is set and the row of the second file has the flag 0)
C27_Witness ==
    /\ last.op = "find_versions"
    /\ Initialized
    /\ Len(playback) = 2
    /\ TextOrEmpty(playback[1]["series_suffix"]) = TextOrEmpty(playback[2]["series_suffix"])
    /\ playback[1]["series_prefix"] = Val("Show")
    /\ playback[2]["series_prefix"] = Val("Show")
    /\ playback[1]["outro_triggered"] = Val(1)
    /\ playback[2]["outro_triggered"] = Val(0)
    /\ \E e \in last.out : e[2] = playback[2]["filename"]

\* C28: a successful save_playback of a file leaves the outro_triggered column
\* of the row the file already has as it was and gives a row it creates the
\* flag 0; the flag get-outro-triggered reads for a file goes from 1 to 0 only
\* by set-outro-triggered of that file with 0.
C28_SaveKeepsFlag ==
    [][\A f \in Files :
         LET before == RowsOfFile(playback, f)
             after == RowsOfFile(playback', f)
         IN /\ (last'.op = "save_playback" /\ last'.ok /\ last'.args[1] = f) =>
                  /\ after # {}
                  /\ \A j \in after :
                        playback'[j]["outro_triggered"] =
                           IF before = {} THEN Val(0)
                           ELSE playback[CHOOSE i \in before : TRUE]["outro_triggered"]
            /\ (/\ get_outro_triggered(pcols, playback, f) = Val(1)
                /\ get_outro_triggered(pcols', playback', f) = Val(0)) =>
                  /\ last'.op = "set-outro-triggered"
                  /\ last'.args = <<f, 0>>]_vars

\* a successful save_playback has just written the progress of a file whose
\* flag is 1 (the flag was set before, a row save_playback creates has 0), and
\* the row of another file, which save_playback created, has the flag 0
C28_Witness ==
    /\ last.op = "save_playback"
    /\ last.ok
    /\ \E i \in RowsOfFile(playback, last.args[1]) :
          /\ playback[i]["outro_triggered"] = Val(1)
          /\ playback[i]["percent"] = Val(50)
    /\ \E f \in Files \ {last.args[1]} :
          \E i \in RowsOfFile(playback, f) : playback[i]["outro_triggered"] = Val(0)

\* the process runs set-intro or set-credits-duration
IsSetter(p) == procs[p].cmd \in {"set-intro", "set-credits-duration"}

\* the process has reported the success of its command
Succeeded(p) == procs[p].pc \in {"returned", "done"} /\ procs[p].ok

====
